---- MODULE Spec2Model ----
(***************************************************************************)
(* Recipe Finder: the response cache, the difficulty classifier, the       *)
(* favorites file and the interactive shell that ties them together.       *)
(*                                                                         *)
(* Strings the program splits, strips, sorts and joins are sequences of    *)
(* one-character strings.  A Python dict is a function on its keys.  None  *)
(* and a value are told apart by an option record.  The favorites file is  *)
(* a record: whether it exists, and its content as a sequence of tokens.   *)
(***************************************************************************)
EXTENDS Integers, Sequences, FiniteSets, Bags, TLC

VARIABLES
    pc,           \* which prompt the shell waits at
    now,          \* time.time(), in seconds
    ticks,        \* how many times the clock has advanced
    api_cache,    \* utils.api_cache: key -> [data, timestamp]
    favFile,      \* config.FAVORITES_FILE on disk
    recipes,      \* `recipes` of the running search flow
    fav_list,     \* `favorites` of view_favorites
    recipe,       \* `recipe` of view_recipe_details / calculate_difficulty
    favorites,    \* `favorites` of view_recipe_details
    is_favorite,  \* `is_favorite` of view_recipe_details
    origin,       \* the caller of view_recipe_details
    result,       \* the value the last pure call returned
    searches,     \* searches started so far
    api_log,      \* history: the API client calls of the last handler
    set_log,      \* history: key -> the last set_in_cache on it
    fill_log,     \* history: bag of ingredients -> the search that last fetched recipes for it
    last_search   \* history: the input of the running ingredient search, and how it was served

vars == <<pc, now, ticks, api_cache, favFile, recipes, fav_list, recipe,
          favorites, is_favorite, origin, result, searches,
          api_log, set_log, fill_log, last_search>>

----------------------------------------------------------------------------
(* Bounds of the model. *)

MaxTicks == 2
MaxSearches == 2
MaxMinutes == 62
MaxIngredients == 17
MaxFavLen == 2
MaxInputLen == 3

----------------------------------------------------------------------------
(* Values. *)

None == [is_none |-> TRUE]
Some(x) == [is_none |-> FALSE, value |-> x]

\* Python truthiness of an optional list: None and [] are falsy.
Truthy(opt) == ~opt.is_none /\ opt.value # <<>>

Range(s) == {s[i] : i \in DOMAIN s}

\* dict.get(field, default)
Get(d, field, default) == IF field \in DOMAIN d THEN d[field] ELSE default

----------------------------------------------------------------------------
(* utils.py: the cache. *)

CACHE_DURATION == 3600

\* Variant: the expiry test written with <=.
get_from_cache_inclusive(cache, key, t) ==
    IF key \in DOMAIN cache /\ t - cache[key].timestamp <= CACHE_DURATION
    THEN Some(cache[key].data)
    ELSE None

\* get_from_cache(key), reading the clock at `t`.
get_from_cache(cache, key, t) ==
    IF key \in DOMAIN cache /\ t - cache[key].timestamp < CACHE_DURATION
    THEN Some(cache[key].data)
    ELSE None

\* Variant: the dict rebuilt with the one entry instead of updated.
set_in_cache_clobber(cache, key, data, t) ==
    [k \in {key} |-> [data |-> data, timestamp |-> t]]

\* set_in_cache(key, data), reading the clock at `t`: the cache afterwards.
set_in_cache(cache, key, data, t) ==
    [k \in DOMAIN cache \cup {key} |->
        IF k = key THEN [data |-> data, timestamp |-> t] ELSE cache[k]]

----------------------------------------------------------------------------
(* utils.py: calculate_difficulty. *)

\* Variant: the thresholds written with >=.
calculate_difficulty_inclusive(r) ==
    LET cooking_time == Get(r, "readyInMinutes", 0)
        ingredient_count == Len(Get(r, "extendedIngredients", <<>>))
    IN  IF cooking_time >= 60 \/ ingredient_count >= 15 THEN "Hard"
        ELSE IF cooking_time >= 30 \/ ingredient_count >= 10 THEN "Medium"
        ELSE "Easy"

calculate_difficulty(r) ==
    LET cooking_time == Get(r, "readyInMinutes", 0)
        ingredient_count == Len(Get(r, "extendedIngredients", <<>>))
    IN  IF cooking_time > 60 \/ ingredient_count > 15 THEN "Hard"
        ELSE IF cooking_time > 30 \/ ingredient_count > 10 THEN "Medium"
        ELSE "Easy"

\* ("Easy", "Medium", "Hard").index(...)
DifficultyIndex(d) == CASE d = "Easy" -> 0 [] d = "Medium" -> 1 [] d = "Hard" -> 2

SortKey(r) == DifficultyIndex(calculate_difficulty(r))

\* list.sort(key=...) is stable: x goes after every element whose key is not greater.
RECURSIVE InsertByKey(_, _)
InsertByKey(x, s) ==
    IF s = <<>> THEN <<x>>
    ELSE IF SortKey(x) < SortKey(Head(s)) THEN <<x>> \o s
    ELSE <<Head(s)>> \o InsertByKey(x, Tail(s))

RECURSIVE SortByDifficulty(_)
SortByDifficulty(s) ==
    IF s = <<>> THEN <<>>
    ELSE InsertByKey(s[Len(s)], SortByDifficulty(SubSeq(s, 1, Len(s) - 1)))

----------------------------------------------------------------------------
(* main.py: the cache key of an ingredient search (lines 70-73). *)

IsSpace(c) == c = " "

\* ord(c) of the characters the inputs are made of
Ord(c) == CASE c = " " -> 32 [] c = "," -> 44 [] c = "a" -> 97 [] c = "b" -> 98

\* str.split(','): always at least one piece
RECURSIVE Split(_)
Split(s) ==
    IF \A i \in DOMAIN s : s[i] # "," THEN <<s>>
    ELSE LET i == CHOOSE j \in DOMAIN s :
                      s[j] = "," /\ \A k \in 1..(j - 1) : s[k] # ","
         IN  <<SubSeq(s, 1, i - 1)>> \o Split(SubSeq(s, i + 1, Len(s)))

RECURSIVE LStrip(_)
LStrip(s) == IF s # <<>> /\ IsSpace(Head(s)) THEN LStrip(Tail(s)) ELSE s

RECURSIVE RStrip(_)
RStrip(s) ==
    IF s # <<>> /\ IsSpace(s[Len(s)]) THEN RStrip(SubSeq(s, 1, Len(s) - 1)) ELSE s

\* str.strip()
Strip(s) == RStrip(LStrip(s))

\* [ing.strip() for ing in ingredients_str.split(',')]
ParseIngredients(ingredients_str) ==
    LET parts == Split(ingredients_str)
    IN  [i \in DOMAIN parts |-> Strip(parts[i])]

\* a < b for Python strings: lexicographic on code points
RECURSIVE StrLess(_, _)
StrLess(a, b) ==
    IF b = <<>> THEN FALSE
    ELSE IF a = <<>> THEN TRUE
    ELSE IF Ord(Head(a)) # Ord(Head(b)) THEN Ord(Head(a)) < Ord(Head(b))
    ELSE StrLess(Tail(a), Tail(b))

RECURSIVE InsertStr(_, _)
InsertStr(x, s) ==
    IF s = <<>> THEN <<x>>
    ELSE IF StrLess(x, Head(s)) THEN <<x>> \o s
    ELSE <<Head(s)>> \o InsertStr(x, Tail(s))

\* sorted(ingredients)
RECURSIVE Sorted(_)
Sorted(s) ==
    IF s = <<>> THEN <<>>
    ELSE InsertStr(s[Len(s)], Sorted(SubSeq(s, 1, Len(s) - 1)))

\* ','.join(list)
RECURSIVE Join(_)
Join(s) ==
    IF s = <<>> THEN <<>>
    ELSE IF Len(s) = 1 THEN s[1]
    ELSE s[1] \o <<",">> \o Join(Tail(s))

\* Variant: the key built without sorted().
IngredientsKey_unsorted(ingredients) == <<"ingredients", Join(ingredients)>>

\* f"ingredients_{','.join(sorted(ingredients))}": the prefix is the tag
IngredientsKey(ingredients) == <<"ingredients", Join(Sorted(ingredients))>>

\* str.lower() on the cuisine and meal-type inputs
Lower(s) == IF s = "Italian" THEN "italian" ELSE s

\* f"cuisine_{cuisine}_{meal_type}"
CuisineKey(cuisine, meal_type) == <<"cuisine", <<cuisine, meal_type>>>>

\* f"details_{recipe['id']}"
DetailsKey(id) == <<"details", id>>

cuisines == {"italian", "chinese", "mexican", "indian", "japanese", "thai",
             "french", "spanish"}
meal_types == {"main course", "dessert", "appetizer", "breakfast", "soup"}

----------------------------------------------------------------------------
(* utils.py: the favorites file.  json.dump writes, and json.load reads, a  *)
(* sequence of tokens <<kind, value>>; separators and whitespace are left   *)
(* out.                                                                     *)

Tok(kind) == <<kind, 0>>
Num(n) == <<"num", n>>
KeyTok(name) == <<"key", name>>

\* the keys of a recipe, in the order they are written
Fields == <<"id", "readyInMinutes", "extendedIngredients">>

RECURSIVE DumpNums(_)
DumpNums(s) == IF s = <<>> THEN <<>> ELSE <<Num(Head(s))>> \o DumpNums(Tail(s))

DumpValue(field, v) ==
    IF field = "extendedIngredients"
    THEN <<Tok("[")>> \o DumpNums(v) \o <<Tok("]")>>
    ELSE <<Num(v)>>

RECURSIVE DumpFields(_, _)
DumpFields(r, fs) ==
    IF fs = <<>> THEN <<>>
    ELSE (IF Head(fs) \in DOMAIN r
          THEN <<KeyTok(Head(fs))>> \o DumpValue(Head(fs), r[Head(fs)])
          ELSE <<>>) \o DumpFields(r, Tail(fs))

\* Variant: one field left out of what is written.
DumpRecipe_partial(r) ==
    <<Tok("{")>> \o DumpFields(r, <<"id", "extendedIngredients">>) \o <<Tok("}")>>

DumpRecipe(r) == <<Tok("{")>> \o DumpFields(r, Fields) \o <<Tok("}")>>

RECURSIVE DumpRecipes(_)
DumpRecipes(l) ==
    IF l = <<>> THEN <<>> ELSE DumpRecipe(Head(l)) \o DumpRecipes(Tail(l))

\* json.dump(favorites, f)
json_dump(l) == <<Tok("[")>> \o DumpRecipes(l) \o <<Tok("]")>>

ParseFail == [ok |-> FALSE]

RECURSIVE ParseValue(_)
RECURSIVE ParseElements(_, _)
RECURSIVE ParseMembers(_, _)

\* one JSON value at the head of the tokens `t`
ParseValue(t) ==
    IF t = <<>> THEN ParseFail
    ELSE CASE Head(t)[1] = "num" -> [ok |-> TRUE, val |-> Head(t)[2], rest |-> Tail(t)]
           [] Head(t)[1] = "[" -> ParseElements(Tail(t), <<>>)
           [] Head(t)[1] = "{" -> ParseMembers(Tail(t), <<>>)
           [] OTHER -> ParseFail

\* the elements of an array up to its "]"
ParseElements(t, acc) ==
    IF t = <<>> THEN ParseFail
    ELSE IF Head(t)[1] = "]" THEN [ok |-> TRUE, val |-> acc, rest |-> Tail(t)]
    ELSE LET v == ParseValue(t)
         IN  IF v.ok THEN ParseElements(v.rest, Append(acc, v.val)) ELSE ParseFail

\* the members of an object up to its "}"
ParseMembers(t, acc) ==
    IF t = <<>> THEN ParseFail
    ELSE IF Head(t)[1] = "}" THEN [ok |-> TRUE, val |-> acc, rest |-> Tail(t)]
    ELSE IF Head(t)[1] = "key"
    THEN LET v == ParseValue(Tail(t))
             key == Head(t)[2]
         IN  IF v.ok
             THEN ParseMembers(v.rest,
                      [k \in DOMAIN acc \cup {key} |->
                          IF k = key THEN v.val ELSE acc[k]])
             ELSE ParseFail
    ELSE ParseFail

\* json.load(f): one value and nothing after it, else JSONDecodeError
json_load(content) ==
    LET v == ParseValue(content)
    IN  IF v.ok /\ v.rest = <<>> THEN [ok |-> TRUE, val |-> v.val] ELSE ParseFail

\* load_favorites()
load_favorites(file) ==
    IF ~file.exists THEN <<>>
    ELSE LET p == json_load(file.content)
         IN  IF p.ok THEN p.val ELSE <<>>

\* save_favorites(favorites): the file afterwards
save_favorites(l) == [exists |-> TRUE, content |-> json_dump(l)]

----------------------------------------------------------------------------
(* api_client.py.  `outcome` is what requests.get, raise_for_status and     *)
(* response.json() do: [error, body].                                       *)

\* Variant: the body returned without raise_for_status() and the except clause.
search_recipes_by_ingredients_uncaught(ingredients, outcome) == Some(outcome.body)

search_recipes_by_ingredients(ingredients, outcome) ==
    IF outcome.error THEN None ELSE Some(outcome.body)

find_recipes_by_cuisine(cuisine, meal_type, outcome) ==
    IF outcome.error THEN None ELSE Some(outcome.body)

get_recipe_details(recipe_id, outcome) ==
    IF outcome.error THEN None ELSE Some(outcome.body)

----------------------------------------------------------------------------
(* What the user types and what the API answers. *)

\* the details the API serves for a recipe id: 1 is Hard, 2 is Easy
Catalog(id) ==
    IF id = 1
    THEN [id |-> 1, readyInMinutes |-> 70, extendedIngredients |-> <<1, 2>>]
    ELSE [id |-> 2, readyInMinutes |-> 10, extendedIngredients |-> <<1>>]

RecipeIds == {1, 2}

\* "", "a,b", "b, a", "a"
IngredientInputs ==
    {<<>>, <<"a", ",", "b">>, <<"b", ",", " ", "a">>, <<"a">>}

CuisineInputs == {"Italian", "pizza"}
MealTypeInputs == {"", "stew"}

\* the bodies of findByIngredients: lists of summaries
SummaryLists == {<<>>, <<[id |-> 1], [id |-> 2]>>}

SearchOutcomes ==
    {[error |-> TRUE, body |-> <<>>]}
        \cup {[error |-> FALSE, body |-> l] : l \in SummaryLists}

\* the bodies of complexSearch: a dict with or without 'results'
CuisineOutcomes ==
    {[error |-> TRUE, body |-> <<>>], [error |-> FALSE, body |-> <<>>]}
        \cup {[error |-> FALSE, body |-> [results |-> l]] : l \in SummaryLists}

\* the outcome of the details request for `id` when the requests for `failing` fail
DetailsOutcome(id, failing) ==
    IF id \in failing THEN [error |-> TRUE, body |-> <<>>]
    ELSE [error |-> FALSE, body |-> Catalog(id)]

\* which details requests fail: none, the first, all
FailingSets == {{}, {1}, RecipeIds}

Missing == [exists |-> FALSE, content |-> <<>>]

\* a missing file, [], an empty file, a truncated file
InitFiles ==
    {Missing,
     save_favorites(<<>>),
     [exists |-> TRUE, content |-> <<>>],
     [exists |-> TRUE, content |-> <<Tok("["), Tok("{"), KeyTok("id")>>]}

\* the multiset of a list
BagOf(s) == [x \in Range(s) |-> Cardinality({i \in DOMAIN s : s[i] = x})]

\* the history of a flow that made no ingredient search
NoSearch == [input |-> <<>>, hit |-> FALSE, fresh |-> FALSE]

LogEntry(op, outcome, res) == [op |-> op, error |-> outcome.error, body |-> outcome.body, result |-> res]

----------------------------------------------------------------------------
(* main.py: the search flows. *)

\* lines 86-89 / 136-139: the details of every summary, the failed ones left out
RECURSIVE FetchDetails(_, _)
FetchDetails(summary, failing) ==
    IF summary = <<>> THEN [recipes |-> <<>>, log |-> <<>>]
    ELSE LET r == Head(summary)
             outcome == DetailsOutcome(r.id, failing)
             details == get_recipe_details(r.id, outcome)
             more == FetchDetails(Tail(summary), failing)
         IN  [recipes |-> (IF ~details.is_none /\ DOMAIN details.value # {}
                           THEN <<details.value>> ELSE <<>>) \o more.recipes,
              log |-> <<LogEntry("get_recipe_details", outcome, details)>> \o more.log]

\* lines 74-90 / 124-140: the cache lookup and, on a miss, the requests.
\* `summary` is the list the search request gave ([] when it failed).
Lookup(cache_key, searchEntry, summary, failing) ==
    LET cached_recipes == get_from_cache(api_cache, cache_key, now)
        fetched == FetchDetails(summary, failing)
    IN  IF Truthy(cached_recipes)
        THEN [recipes |-> cached_recipes.value, cache |-> api_cache,
              log |-> <<>>, set |-> FALSE, hit |-> TRUE]
        ELSE IF summary # <<>>
        THEN [recipes |-> fetched.recipes,
              cache |-> set_in_cache(api_cache, cache_key, fetched.recipes, now),
              log |-> <<searchEntry>> \o fetched.log, set |-> TRUE, hit |-> FALSE]
        ELSE [recipes |-> <<>>, cache |-> api_cache,
              log |-> <<searchEntry>>, set |-> FALSE, hit |-> FALSE]

\* display_recipes(recipes): the list after recipes.sort(...)
display_recipes(l) == SortByDifficulty(l)

\* lines 92-97 / 142-147.  display_recipes sorts the list in place, and the
\* cache entry holds that same list object, so the entry is sorted with it.
ShowResults(cache_key, found) ==
    /\ set_log' = IF found.set
                  THEN [k \in DOMAIN set_log \cup {cache_key} |->
                          IF k = cache_key
                          THEN [data |-> display_recipes(found.recipes), at |-> now]
                          ELSE set_log[k]]
                  ELSE set_log
    /\ api_log' = found.log
    /\ IF found.recipes # <<>>
       THEN /\ recipes' = display_recipes(found.recipes)
            /\ api_cache' = [found.cache EXCEPT ![cache_key].data = display_recipes(found.recipes)]
            /\ pc' = "select"
       ELSE /\ recipes' = <<>>
            /\ api_cache' = found.cache
            /\ pc' = "no_results"

search_by_ingredients(ingredients_str, outcome, failing) ==
    /\ pc = "main_menu"
    /\ searches < MaxSearches
    /\ ingredients_str # <<>>
    /\ LET ingredients == ParseIngredients(ingredients_str)
           cache_key == IngredientsKey(ingredients)
           recipes_summary == search_recipes_by_ingredients(ingredients, outcome)
           found == Lookup(cache_key,
                           LogEntry("search_recipes_by_ingredients", outcome, recipes_summary),
                           IF Truthy(recipes_summary) THEN recipes_summary.value ELSE <<>>,
                           failing)
           bag == BagOf(ingredients)
       IN  /\ ShowResults(cache_key, found)
           /\ last_search' =
                 [input |-> ingredients_str,
                  hit |-> found.hit,
                  fresh |-> bag \in DOMAIN fill_log
                               /\ now - fill_log[bag].at < CACHE_DURATION]
           /\ fill_log' = IF ~found.hit /\ found.recipes # <<>>
                          THEN [b \in DOMAIN fill_log \cup {bag} |->
                                  IF b = bag
                                  THEN [at |-> now, input |-> ingredients_str]
                                  ELSE fill_log[b]]
                          ELSE fill_log
    /\ searches' = searches + 1
    /\ UNCHANGED <<now, ticks, favFile, fav_list, recipe, favorites,
                   is_favorite, origin, result>>

\* lines 64-68: "Input cannot be empty."
search_by_ingredients_empty ==
    /\ pc = "main_menu"
    /\ pc' = "no_results"
    /\ UNCHANGED <<now, ticks, api_cache, favFile, recipes, fav_list, recipe,
                   favorites, is_favorite, origin, result, searches,
                   api_log, set_log, fill_log, last_search>>

search_by_cuisine(cuisine_in, meal_type_in, outcome, failing) ==
    /\ pc = "main_menu"
    /\ searches < MaxSearches
    /\ LET cuisine == Lower(cuisine_in)
           meal_type == Lower(meal_type_in)
       IN  IF cuisine \notin cuisines \/ (meal_type # "" /\ meal_type \notin meal_types)
           THEN /\ pc' = "no_results"
                /\ UNCHANGED <<api_cache, recipes, api_log, set_log, searches>>
           ELSE LET cache_key == CuisineKey(cuisine, meal_type)
                    data == find_recipes_by_cuisine(cuisine, meal_type, outcome)
                    recipes_summary ==
                        IF ~data.is_none /\ DOMAIN data.value # {}
                        THEN Get(data.value, "results", <<>>) ELSE <<>>
                    found == Lookup(cache_key,
                                    LogEntry("find_recipes_by_cuisine", outcome, data),
                                    recipes_summary, failing)
                IN  /\ ShowResults(cache_key, found)
                    /\ searches' = searches + 1
    /\ UNCHANGED <<now, ticks, favFile, fav_list, recipe, favorites,
                   is_favorite, origin, result, fill_log, last_search>>

\* "Press Enter to return to the main menu..."
press_enter ==
    /\ pc \in {"no_results", "no_favorites"}
    /\ pc' = "main_menu"
    /\ api_log' = <<>>
    /\ last_search' = NoSearch
    /\ UNCHANGED <<now, ticks, api_cache, favFile, recipes, fav_list, recipe,
                   favorites, is_favorite, origin, result, searches,
                   set_log, fill_log>>

----------------------------------------------------------------------------
(* main.py: recipe details and favorites. *)

NoRecipe == <<>>

\* Variant: only the first favorite is compared.
HasId_first(l, id) == l # <<>> /\ l[1].id = id

\* any(fav['id'] == recipe['id'] for fav in favorites)
HasId(l, id) == \E i \in DOMAIN l : l[i].id = id

\* [fav for fav in favorites if fav['id'] != recipe['id']]
RECURSIVE RemoveById(_, _)
RemoveById(l, id) ==
    IF l = <<>> THEN <<>>
    ELSE (IF Head(l).id # id THEN <<Head(l)>> ELSE <<>>) \o RemoveById(Tail(l), id)

\* lines 212-214: del utils.api_cache[details_key] when it is there
DropDetails(cache, id) ==
    [k \in DOMAIN cache \ {DetailsKey(id)} |-> cache[k]]

\* Variant: the recipe appended whatever is_favorite says.
ToggleFavorite_append(favs, is_fav, r) == Append(favs, r)

\* lines 209-218: the favorites list after choice '1'
ToggleFavorite(favs, is_fav, r) ==
    IF is_fav THEN RemoveById(favs, r.id) ELSE Append(favs, r)

\* lines 151-152: view_recipe_details(r) up to its first prompt
EnterDetails(r, from) ==
    /\ recipe' = r
    /\ favorites' = load_favorites(favFile)
    /\ is_favorite' = HasId(load_favorites(favFile), r.id)
    /\ origin' = from
    /\ pc' = "details"

\* select_recipe_flow: a recipe number
select_recipe(choice_num) ==
    /\ pc = "select"
    /\ 0 < choice_num /\ choice_num <= Len(recipes)
    /\ EnterDetails(recipes[choice_num], "select")
    /\ UNCHANGED <<now, ticks, api_cache, favFile, recipes, fav_list, result,
                   searches, api_log, set_log, fill_log, last_search>>

\* select_recipe_flow: '0'
select_return ==
    /\ pc = "select"
    /\ pc' = "main_menu"
    /\ recipes' = <<>>
    /\ api_log' = <<>>
    /\ last_search' = NoSearch
    /\ UNCHANGED <<now, ticks, api_cache, favFile, fav_list, recipe, favorites,
                   is_favorite, origin, result, searches, set_log, fill_log>>

\* view_recipe_details: choice '1'
toggle_favorite ==
    /\ pc = "details"
    /\ favorites' = ToggleFavorite(favorites, is_favorite, recipe)
    /\ api_cache' = IF is_favorite THEN DropDetails(api_cache, recipe.id) ELSE api_cache
    /\ favFile' = save_favorites(favorites')
    /\ is_favorite' = ~is_favorite
    /\ UNCHANGED <<pc, now, ticks, recipes, fav_list, recipe, origin, result,
                   searches, api_log, set_log, fill_log, last_search>>

\* Variant: view_favorites without its `if not favorites` return.
ShowFavorites_unchecked ==
    /\ fav_list' = display_recipes(load_favorites(favFile))
    /\ pc' = "favorites"

\* lines 257-262: view_favorites from the top of its loop
ShowFavorites ==
    LET loaded == load_favorites(favFile)
    IN  IF loaded = <<>>
        THEN /\ fav_list' = <<>>
             /\ pc' = "no_favorites"
        ELSE /\ fav_list' = display_recipes(loaded)
             /\ pc' = "favorites"

\* view_recipe_details: choice '0', back in the caller
details_return ==
    /\ pc = "details"
    /\ recipe' = NoRecipe
    /\ favorites' = <<>>
    /\ is_favorite' = FALSE
    /\ origin' = "none"
    /\ IF origin = "select"
       THEN /\ pc' = "select"
            /\ UNCHANGED fav_list
       ELSE ShowFavorites
    /\ UNCHANGED <<now, ticks, api_cache, favFile, recipes, result, searches,
                   api_log, set_log, fill_log, last_search>>

\* main_menu: choice '3'
view_favorites ==
    /\ pc = "main_menu"
    /\ ShowFavorites
    /\ UNCHANGED <<now, ticks, api_cache, favFile, recipes, recipe, favorites,
                   is_favorite, origin, result, searches, api_log,
                   set_log, fill_log, last_search>>

\* view_favorites: a recipe number
select_favorite(choice_num) ==
    /\ pc = "favorites"
    /\ 0 < choice_num /\ choice_num <= Len(fav_list)
    /\ EnterDetails(fav_list[choice_num], "favorites")
    /\ UNCHANGED <<now, ticks, api_cache, favFile, recipes, fav_list, result,
                   searches, api_log, set_log, fill_log, last_search>>

\* view_favorites: '0'
favorites_return ==
    /\ pc = "favorites"
    /\ pc' = "main_menu"
    /\ fav_list' = <<>>
    /\ UNCHANGED <<now, ticks, api_cache, favFile, recipes, recipe, favorites,
                   is_favorite, origin, result, searches, api_log,
                   set_log, fill_log, last_search>>

\* main_menu: choice '4'
exit_app ==
    /\ pc = "main_menu"
    /\ pc' = "exit"
    /\ UNCHANGED <<now, ticks, api_cache, favFile, recipes, fav_list, recipe,
                   favorites, is_favorite, origin, result, searches,
                   api_log, set_log, fill_log, last_search>>

\* Time passes while the shell waits for input.  Only the search flows read
\* the clock, and they start at the main menu, so the time that passes at any
\* other prompt is taken to pass at the main menu.
TickSteps == {1, CACHE_DURATION - 1}

Tick(d) ==
    /\ pc = "main_menu"
    /\ ticks < MaxTicks
    /\ now' = now + d
    /\ ticks' = ticks + 1
    /\ UNCHANGED <<pc, api_cache, favFile, recipes, fav_list, recipe, favorites,
                   is_favorite, origin, result, searches, api_log,
                   set_log, fill_log, last_search>>

----------------------------------------------------------------------------
(* The shell. *)

Init ==
    /\ pc = "main_menu"
    /\ now = 0
    /\ ticks = 0
    /\ api_cache = <<>>
    /\ favFile \in InitFiles
    /\ recipes = <<>>
    /\ fav_list = <<>>
    /\ recipe = NoRecipe
    /\ favorites = <<>>
    /\ is_favorite = FALSE
    /\ origin = "none"
    /\ result = <<>>
    /\ searches = 0
    /\ api_log = <<>>
    /\ set_log = <<>>
    /\ fill_log = <<>>
    /\ last_search = NoSearch

Next ==
    \/ \E s \in IngredientInputs, o \in SearchOutcomes, f \in FailingSets :
          search_by_ingredients(s, o, f)
    \/ search_by_ingredients_empty
    \/ \E c \in CuisineInputs, m \in MealTypeInputs, o \in CuisineOutcomes,
          f \in FailingSets : search_by_cuisine(c, m, o, f)
    \/ press_enter
    \/ \E n \in 1..Cardinality(RecipeIds) : select_recipe(n)
    \/ select_return
    \/ toggle_favorite
    \/ details_return
    \/ view_favorites
    \/ \E n \in 1..(Cardinality(RecipeIds) + 1) : select_favorite(n)
    \/ favorites_return
    \/ exit_app
    \/ \E d \in TickSteps : Tick(d)

Spec == Init /\ [][Next]_vars

----------------------------------------------------------------------------
(* calculate_difficulty on its own: every cook time and ingredient count   *)
(* up to the bounds, each present or missing.                              *)

\* a recipe dict with the keys `fs`, cook time t and n ingredients
MkRecipe(fs, t, n) ==
    [f \in fs |-> IF f = "readyInMinutes" THEN t ELSE [i \in 1..n |-> i]]

DifficultyInputs ==
    {MkRecipe(fs, t, n) : fs \in SUBSET {"readyInMinutes", "extendedIngredients"},
                          t \in 0..MaxMinutes, n \in 0..MaxIngredients}

Idle ==
    /\ now = 0
    /\ ticks = 0
    /\ api_cache = <<>>
    /\ recipes = <<>>
    /\ is_favorite = FALSE
    /\ origin = "none"
    /\ searches = 0
    /\ api_log = <<>>
    /\ set_log = <<>>
    /\ fill_log = <<>>
    /\ last_search = NoSearch

InitDifficulty ==
    /\ Idle
    /\ pc = "difficulty_call"
    /\ recipe \in DifficultyInputs
    /\ result = ""
    /\ favFile = Missing
    /\ favorites = <<>>
    /\ fav_list = <<>>

CallDifficulty ==
    /\ pc = "difficulty_call"
    /\ result' = calculate_difficulty(recipe)
    /\ pc' = "difficulty_done"
    /\ UNCHANGED <<now, ticks, api_cache, favFile, recipes, fav_list, recipe,
                   favorites, is_favorite, origin, searches, api_log, set_log,
                   fill_log, last_search>>

SpecDifficulty == InitDifficulty /\ [][CallDifficulty]_vars

----------------------------------------------------------------------------
(* save_favorites and load_favorites on their own: every list of recipe    *)
(* dicts up to the bound, saved over any file, loaded, and saved again.    *)

FileRecipes ==
    {[f \in {"id"} \cup fs |->
        CASE f = "id" -> id
          [] f = "readyInMinutes" -> 10
          [] f = "extendedIngredients" -> ings] :
        id \in RecipeIds,
        fs \in SUBSET {"readyInMinutes", "extendedIngredients"},
        ings \in {<<>>, <<1, 2>>}}

ListsUpTo(S, n) == UNION {[1..k -> S] : k \in 0..n}

InitFavFile ==
    /\ Idle
    /\ pc = "file_start"
    /\ favorites \in ListsUpTo(FileRecipes, MaxFavLen)
    /\ favFile \in InitFiles
    /\ fav_list = <<>>
    /\ result = Missing
    /\ recipe = NoRecipe

SaveList ==
    /\ pc = "file_start"
    /\ favFile' = save_favorites(favorites)
    /\ pc' = "file_saved"
    /\ UNCHANGED <<now, ticks, api_cache, recipes, fav_list, recipe, favorites,
                   is_favorite, origin, result, searches, api_log, set_log,
                   fill_log, last_search>>

LoadList ==
    /\ pc = "file_saved"
    /\ fav_list' = load_favorites(favFile)
    /\ pc' = "file_loaded"
    /\ UNCHANGED <<now, ticks, api_cache, favFile, recipes, recipe, favorites,
                   is_favorite, origin, result, searches, api_log, set_log,
                   fill_log, last_search>>

\* `result` keeps the file as it was before the second save
SaveLoaded ==
    /\ pc = "file_loaded"
    /\ result' = favFile
    /\ favFile' = save_favorites(fav_list)
    /\ pc' = "file_resaved"
    /\ UNCHANGED <<now, ticks, api_cache, recipes, fav_list, recipe, favorites,
                   is_favorite, origin, searches, api_log, set_log, fill_log,
                   last_search>>

NextFavFile == SaveList \/ LoadList \/ SaveLoaded

SpecFavFile == InitFavFile /\ [][NextFavFile]_vars

----------------------------------------------------------------------------
(* parse_nutritional_info on its own: the four scored nutrients, each      *)
(* present with an amount around its thresholds or missing, with or        *)
(* without a nutrient that is not scored, and a dict with no nutrient list. *)

\* {n["name"]: (n["amount"], n["unit"]) for n in ...}: a later record of a
\* name replaces an earlier one
NutrientsDict(l) ==
    [name \in {l[i].name : i \in DOMAIN l} |->
        LET last == CHOOSE i \in DOMAIN l :
                        /\ l[i].name = name
                        /\ \A j \in DOMAIN l : l[j].name = name => j <= i
        IN  <<l[last].amount, l[last].unit>>]

Min(a, b) == IF a < b THEN a ELSE b

\* the variant that returns the sum as it is
parse_nutritional_info_uncapped(nutrition) ==
    LET nutrients == NutrientsDict(Get(nutrition, "nutrients", <<>>))
        calories == Get(nutrients, "Calories", <<0, "kcal">>)
        protein == Get(nutrients, "Protein", <<0, "g">>)
        sodium == Get(nutrients, "Sodium", <<0, "mg">>)
        vitamin_a == Get(nutrients, "Vitamin A", <<0, "% of Daily Needs">>)
        score == 50 + (IF protein[1] > 25 THEN 15 ELSE 0)
                    + (IF vitamin_a[1] > 20 THEN 15 ELSE 0)
                    + (IF sodium[1] < 500 THEN 20 ELSE 0)
                    + (IF calories[1] < 500 THEN 10 ELSE 0)
    IN  [calories |-> calories,
         health_metrics |->
             (IF protein[1] > 25 THEN <<"High in Protein">> ELSE <<>>)
                 \o (IF vitamin_a[1] > 20 THEN <<"Good source of Vitamin A">> ELSE <<>>)
                 \o (IF sodium[1] > 1000 THEN <<"High in Sodium">> ELSE <<>>),
         nutrition_score |-> score]

\* `calories` is the amount and the unit that the code writes into one text
parse_nutritional_info(nutrition) ==
    LET nutrients == NutrientsDict(Get(nutrition, "nutrients", <<>>))
        calories == Get(nutrients, "Calories", <<0, "kcal">>)
        protein == Get(nutrients, "Protein", <<0, "g">>)
        sodium == Get(nutrients, "Sodium", <<0, "mg">>)
        vitamin_a == Get(nutrients, "Vitamin A", <<0, "% of Daily Needs">>)
        score == 50 + (IF protein[1] > 25 THEN 15 ELSE 0)
                    + (IF vitamin_a[1] > 20 THEN 15 ELSE 0)
                    + (IF sodium[1] < 500 THEN 20 ELSE 0)
                    + (IF calories[1] < 500 THEN 10 ELSE 0)
    IN  [calories |-> calories,
         health_metrics |->
             (IF protein[1] > 25 THEN <<"High in Protein">> ELSE <<>>)
                 \o (IF vitamin_a[1] > 20 THEN <<"Good source of Vitamin A">> ELSE <<>>)
                 \o (IF sodium[1] > 1000 THEN <<"High in Sodium">> ELSE <<>>),
         nutrition_score |-> Min(score, 100)]

ScoredNutrients == <<"Calories", "Protein", "Sodium", "Vitamin A">>

NutrientUnit(name) ==
    CASE name = "Calories" -> "kcal"
      [] name = "Protein" -> "g"
      [] name = "Sodium" -> "mg"
      [] name = "Vitamin A" -> "% of Daily Needs"
      [] OTHER -> "g"

\* amounts on both sides of every threshold of the code
NutrientAmounts == {0, 20, 21, 25, 26, 30, 200, 400, 499, 500, 1000, 1001}

\* the nutrition dict whose list holds, in the order of ScoredNutrients, the
\* nutrients that c gives an amount, after a "Fat" record when with_fat
MkNutrition(c, with_fat) ==
    LET all == [i \in DOMAIN ScoredNutrients |->
                   [name |-> ScoredNutrients[i],
                    amount |-> IF c[ScoredNutrients[i]].is_none THEN 0
                               ELSE c[ScoredNutrients[i]].value,
                    unit |-> NutrientUnit(ScoredNutrients[i])]]
        present(r) == ~c[r.name].is_none
        fat == [name |-> "Fat", amount |-> 30, unit |-> NutrientUnit("Fat")]
    IN  [nutrients |-> (IF with_fat THEN <<fat>> ELSE <<>>) \o SelectSeq(all, present)]

NutritionInputs ==
    {MkNutrition(c, with_fat) :
        c \in [Range(ScoredNutrients) -> {None} \cup {Some(a) : a \in NutrientAmounts}],
        with_fat \in BOOLEAN}
      \cup {<<>>}

InitNutrition ==
    /\ Idle
    /\ pc = "nutrition_call"
    /\ recipe \in NutritionInputs
    /\ result = None
    /\ favFile = Missing
    /\ favorites = <<>>
    /\ fav_list = <<>>

CallNutrition ==
    /\ pc = "nutrition_call"
    /\ result' = parse_nutritional_info(recipe)
    /\ pc' = "nutrition_done"
    /\ UNCHANGED <<now, ticks, api_cache, favFile, recipes, fav_list, recipe,
                   favorites, is_favorite, origin, searches, api_log, set_log,
                   fill_log, last_search>>

SpecNutrition == InitNutrition /\ [][CallNutrition]_vars

----------------------------------------------------------------------------
(* Properties. *)

\* every key the shell can look up or delete
AllKeys ==
    {IngredientsKey(ParseIngredients(s)) : s \in IngredientInputs \ {<<>>}}
        \cup {CuisineKey(Lower(c), Lower(m)) : c \in CuisineInputs, m \in MealTypeInputs}
        \cup {DetailsKey(id) : id \in RecipeIds}

\* C1: for every key, as long as less than 3600 seconds have passed since the
\* last set_in_cache on it, get_from_cache returns the data of that set, an
\* empty list included, whatever was set or looked up on other keys since.
C1_GetReturnsLastSet ==
    \A k \in DOMAIN set_log :
        now - set_log[k].at < 3600
            => get_from_cache(api_cache, k, now) = Some(set_log[k].data)

\* C1 happens: an empty list was set on one key, another key was set later,
\* and the first key is still inside its window.
C1_Witness ==
    \E k \in DOMAIN set_log, other \in DOMAIN set_log :
        /\ k # other
        /\ set_log[k].at < set_log[other].at
        /\ set_log[k].data = <<>>
        /\ now - set_log[k].at < 3600
        /\ get_from_cache(api_cache, k, now) = Some(<<>>)

\* C2: get_from_cache returns None for a key that was never set, and for a
\* key whose last set is 3600 seconds old or older.
C2_ExpiredOrUnsetIsAbsent ==
    \A k \in AllKeys :
        (k \notin DOMAIN set_log \/ now - set_log[k].at >= 3600)
            => get_from_cache(api_cache, k, now) = None

\* C2 happens: a key was set exactly 3600 seconds ago and is looked up.
C2_Witness ==
    \E k \in DOMAIN set_log :
        /\ now - set_log[k].at = 3600
        /\ get_from_cache(api_cache, k, now) = None

Ids(l) == {l[i].id : i \in DOMAIN l}

NoDuplicateIds(l) ==
    \A i \in DOMAIN l, j \in DOMAIN l : l[i].id = l[j].id => i = j

\* C3: the list in the favorites file never holds two records with the same
\* id.  (Every file the shell starts from here loads as the empty list.)
C3_PersistedIdsUnique == NoDuplicateIds(load_favorites(favFile))

\* C3 happens: two recipes are saved, one of them was opened from the
\* favorites view and is offered for removal.
C3_Witness ==
    /\ pc = "details"
    /\ origin = "favorites"
    /\ is_favorite
    /\ Len(load_favorites(favFile)) = 2

\* C5: whenever view_recipe_details waits for a choice, the file loads as its
\* in-memory list, and is_favorite says whether the viewed recipe's id is in
\* the persisted list.
C5_PersistedBeforePrompt ==
    pc = "details" =>
        /\ load_favorites(favFile) = favorites
        /\ is_favorite = (recipe.id \in Ids(load_favorites(favFile)))

\* C5 happens: of two saved recipes the one opened from the favorites view
\* has been removed, and the shell waits for the next choice.
C5_Witness ==
    /\ pc = "details"
    /\ origin = "favorites"
    /\ ~is_favorite
    /\ favFile.exists
    /\ Len(favorites) = 1
    /\ recipe.id \notin Ids(favorites)

\* C6: load_favorites after save_favorites(L) returns L, and saving what was
\* loaded leaves the file as it was.
C6_RoundTrip ==
    /\ pc \in {"file_loaded", "file_resaved"} => fav_list = favorites
    /\ pc = "file_resaved" => favFile = result

\* C6 happens: a list of two records, the first with its ingredients, has
\* been saved, loaded and saved again.
C6_Witness ==
    /\ pc = "file_resaved"
    /\ Len(favorites) = 2
    /\ "extendedIngredients" \in DOMAIN favorites[1]
    /\ "readyInMinutes" \in DOMAIN favorites[2]
    /\ fav_list = favorites

MalformedFiles == {f \in InitFiles : f.exists /\ f.content # json_dump(<<>>)}

\* C7: with the file missing or malformed, load_favorites returns [] and
\* choosing the favorites view leaves the file as it is and shows the "no
\* favorites" prompt, from which the shell goes back to the main menu.
C7_MissingOrMalformedIsEmpty ==
    [][/\ (favFile \in {Missing} \cup MalformedFiles) => load_favorites(favFile) = <<>>
       /\ (pc = "main_menu" /\ pc' \in {"favorites", "no_favorites"}
              /\ favFile \in {Missing} \cup MalformedFiles)
            => (pc' = "no_favorites" /\ fav_list' = <<>> /\ favFile' = favFile)
       /\ pc = "no_favorites" => pc' = "main_menu"]_vars

\* C7 happens: the favorites view was chosen over a malformed file.
C7_Witness ==
    /\ pc = "no_favorites"
    /\ favFile \in MalformedFiles

\* the search request of a flow gave None or nothing
NoSummary(e) ==
    \/ e.result.is_none
    \/ e.op = "search_recipes_by_ingredients" /\ e.result.value = <<>>
    \/ e.op = "find_recipes_by_cuisine"
          /\ (DOMAIN e.result.value = {} \/ Get(e.result.value, "results", <<>>) = <<>>)

\* C8: every API client call returns the body on success and None on an
\* error; a search flow whose search request gives None or nothing makes no
\* further request, leaves the cache and the favorites file as they were,
\* shows no recipes, and goes back to the main menu.
C8_ErrorsBecomeNone ==
    [][/\ \A i \in DOMAIN api_log' :
             /\ api_log'[i].error => api_log'[i].result.is_none
             /\ ~api_log'[i].error => api_log'[i].result = Some(api_log'[i].body)
       /\ (pc = "main_menu" /\ api_log' # <<>> /\ NoSummary(api_log'[1]))
            => /\ Len(api_log') = 1
               /\ api_cache' = api_cache
               /\ favFile' = favFile
               /\ recipes' = <<>>
               /\ pc' = "no_results"
       /\ pc = "no_results" => pc' = "main_menu"]_vars

\* C8 happens: a search request failed, with an entry of another key cached.
C8_Witness ==
    /\ pc = "no_results"
    /\ Len(api_log) = 1
    /\ api_log[1].error
    /\ api_log[1].result.is_none
    /\ api_cache # <<>>

Alphabet == {"a", "b", " ", ","}

\* every non-empty input up to the bound
KeyInputs == ListsUpTo(Alphabet, MaxInputLen) \ {<<>>}

KeysOrderInsensitive ==
    \A s1 \in KeyInputs, s2 \in KeyInputs :
        BagOf(ParseIngredients(s1)) = BagOf(ParseIngredients(s2))
            => IngredientsKey(ParseIngredients(s1)) = IngredientsKey(ParseIngredients(s2))

\* C9: two inputs whose stripped ingredient lists are permutations of each
\* other have the same cache key, and a search made less than 3600 seconds
\* after a search of such an input fetched recipes is served from the cache,
\* with no API call.
C9_PermutedInputsShareEntry ==
    /\ KeysOrderInsensitive
    /\ last_search.fresh => (last_search.hit /\ api_log = <<>> /\ recipes # <<>>)

\* C9 happens: a search is served from what a search of a differently
\* written input fetched.
C9_Witness ==
    /\ pc = "select"
    /\ last_search.fresh
    /\ last_search.hit
    /\ LET bag == BagOf(ParseIngredients(last_search.input))
       IN  /\ bag \in DOMAIN fill_log
           /\ fill_log[bag].input # last_search.input

\* C10: calculate_difficulty returns Hard iff t > 60 or n > 15, Medium iff
\* not Hard and (t > 30 or n > 10), and Easy otherwise, with t and n taken
\* as 0 when missing; t = 60, n = 15 is Medium and t = 30, n = 10 is Easy.
C10_DifficultyTiers ==
    pc = "difficulty_done" =>
        LET t == IF "readyInMinutes" \in DOMAIN recipe THEN recipe.readyInMinutes ELSE 0
            n == IF "extendedIngredients" \in DOMAIN recipe
                 THEN Len(recipe.extendedIngredients) ELSE 0
            hard == t > 60 \/ n > 15
            medium == ~hard /\ (t > 30 \/ n > 10)
        IN  /\ result \in {"Easy", "Medium", "Hard"}
            /\ (result = "Hard") = hard
            /\ (result = "Medium") = medium
            /\ (result = "Easy") = (~hard /\ ~medium)
            /\ (t = 60 /\ n = 15) => result = "Medium"
            /\ (t = 30 /\ n = 10) => result = "Easy"

\* C10 happens: the recipe with t = 60 and n = 15 has been classified.
C10_Witness ==
    /\ pc = "difficulty_done"
    /\ "readyInMinutes" \in DOMAIN recipe
    /\ "extendedIngredients" \in DOMAIN recipe
    /\ recipe.readyInMinutes = 60
    /\ Len(recipe.extendedIngredients) = 15
    /\ result = "Medium"

\* the amount the input gives for a nutrient, 0 when the nutrient is missing
AmountOf(nutrition, name) ==
    LET l == IF "nutrients" \in DOMAIN nutrition THEN nutrition.nutrients ELSE <<>>
    IN  IF \E i \in DOMAIN l : l[i].name = name
        THEN l[CHOOSE i \in DOMAIN l : l[i].name = name].amount
        ELSE 0

\* C11: parse_nutritional_info gives nutrition_score = min(100, 50
\* + 15 if protein > 25 + 15 if vitamin A > 20 + 20 if sodium < 500
\* + 10 if calories < 500), a missing nutrient counting as amount 0; the score
\* is always in 0..100, and protein 30, vitamin A 25, sodium 200, calories 400
\* gives 100.
C11_NutritionScore ==
    pc = "nutrition_done" =>
        LET protein == AmountOf(recipe, "Protein")
            vitamin_a == AmountOf(recipe, "Vitamin A")
            sodium == AmountOf(recipe, "Sodium")
            calories == AmountOf(recipe, "Calories")
            sum == 50 + (IF protein > 25 THEN 15 ELSE 0)
                      + (IF vitamin_a > 20 THEN 15 ELSE 0)
                      + (IF sodium < 500 THEN 20 ELSE 0)
                      + (IF calories < 500 THEN 10 ELSE 0)
        IN  /\ result.nutrition_score = (IF sum > 100 THEN 100 ELSE sum)
            /\ result.nutrition_score \in 0..100
            /\ (protein = 30 /\ vitamin_a = 25 /\ sodium = 200 /\ calories = 400)
                   => result.nutrition_score = 100

\* C11 happens: protein 30, vitamin A 25, sodium 200 and calories 400 have
\* been scored, the sum of 110 coming out as 100.
C11_Witness ==
    /\ pc = "nutrition_done"
    /\ AmountOf(recipe, "Protein") = 30
    /\ AmountOf(recipe, "Vitamin A") = 25
    /\ AmountOf(recipe, "Sodium") = 200
    /\ AmountOf(recipe, "Calories") = 400
    /\ result.nutrition_score = 100

\* the cache holds an entry for key that is less than 3600 seconds old
UnexpiredEntry(key) ==
    /\ key \in DOMAIN api_cache
    /\ now - api_cache[key].timestamp < 3600

\* C12: a search flow that starts with an unexpired cache entry for its key
\* shows the cached data and makes no API request; so a search repeated less
\* than 3600 seconds after a search wrote the entry calls no API client
\* function.
C12_UnexpiredEntryMeansNoRequest ==
    [][/\ \A s \in IngredientInputs, o \in SearchOutcomes, f \in FailingSets :
            LET key == IngredientsKey(ParseIngredients(s))
            IN  (search_by_ingredients(s, o, f) /\ UnexpiredEntry(key))
                    => (api_log' = <<>> /\ recipes' = api_cache[key].data)
       /\ \A c \in CuisineInputs, m \in MealTypeInputs,
             o \in CuisineOutcomes, f \in FailingSets :
            LET key == CuisineKey(Lower(c), Lower(m))
            IN  (search_by_cuisine(c, m, o, f) /\ searches' = searches + 1
                     /\ UnexpiredEntry(key))
                    => (api_log' = <<>> /\ recipes' = api_cache[key].data)]_vars

\* C12 fails: a search of an ingredient input has just made a request
\* although the entry of its key, written by an earlier search whose details
\* requests all failed, is less than 3600 seconds old.
C12_RequestDespiteEntry ==
    /\ pc = "no_results"
    /\ last_search.input # <<>>
    /\ UnexpiredEntry(IngredientsKey(ParseIngredients(last_search.input)))
    /\ api_cache[IngredientsKey(ParseIngredients(last_search.input))].data = <<>>
    /\ Len(api_log) = 1
    /\ api_log[1].op = "search_recipes_by_ingredients"
    /\ api_log[1].result = Some(<<>>)

====
